---- MODULE Spec2Model ----
(***************************************************************************)
(* UrlDetector (src/model.py): a wrapper around a Keras layer graph that   *)
(* builds one of two architectures, pads encoded URLs to max_length, and   *)
(* fits / evaluates / predicts with it.  The state is the instance's       *)
(* fields, the directories on disk, the open matplotlib figures and the    *)
(* record of the last call.  The Keras calls are modelled by what they do  *)
(* to that state: pad_sequences is computed entry by entry, compile and    *)
(* evaluate by the list of metrics, the network's forward pass by a        *)
(* deterministic stand-in over the weights, the F1 metric in float32       *)
(* arithmetic (Keras' default floatx), every result rounded to nearest.    *)
(***************************************************************************)
EXTENDS Integers, Sequences, FiniteSets

VARIABLES max_length, vocab_size, model, dirs, figures, call, ctor, rebuilt,
          lastpred, metric

vars == <<max_length, vocab_size, model, dirs, figures, call, ctor, rebuilt,
          lastpred, metric>>

(***************************************************************************)
(* Bounds of the model.                                                    *)
(***************************************************************************)
\* max_length is drawn from 1..MaxLength; documents are up to MaxLength + 1 long
MaxLength == 2
\* character codes of the documents are 1..NumCodes (0 is the padding value)
NumCodes == 2
\* fit is not taken once the weights have been trained MaxFits times
MaxFits == 2
\* build_model is not taken once MaxObjects layer graphs have been created
MaxObjects == 3
\* plot_roc_curve is not taken once MaxFigures figures are open
MaxFigures == 1
\* a metric batch holds 1..MaxBatch (label, prediction) pairs
MaxBatch == 3
\* predictions are the probabilities k / PredScale, k in 0..PredScale
PredScale == 2

(***************************************************************************)
(* Helpers on sequences.                                                   *)
(***************************************************************************)
Min(a, b) == IF a < b THEN a ELSE b

Max(a, b) == IF a < b THEN b ELSE a

RECURSIVE Sum(_)
Sum(s) == IF s = <<>> THEN 0 ELSE Head(s) + Sum(Tail(s))

\* the value repeated n times
Repeat(value, n) == [i \in 1..n |-> value]

\* all sequences over S of length 0..n
SeqsUpTo(S, n) == UNION {[1..k -> S] : k \in 0..n}

(***************************************************************************)
(* keras.preprocessing.sequence.pad_sequences, one row per sequence:       *)
(*   an empty sequence leaves its row at `value`;                          *)
(*   truncating 'pre' keeps s[-maxlen:], 'post' keeps s[:maxlen];          *)
(*   padding 'post' writes the kept entries at the start of the row,       *)
(*   'pre' at its end.                                                     *)
(***************************************************************************)
PadRow(s, maxlen, padding, truncating, value) ==
    IF Len(s) = 0 THEN Repeat(value, maxlen)
    ELSE LET keep  == Min(maxlen, Len(s))
             trunc == IF truncating = "pre"
                      THEN SubSeq(s, Len(s) - keep + 1, Len(s))
                      ELSE SubSeq(s, 1, keep)
             fill  == Repeat(value, maxlen - Len(trunc))
         IN  IF padding = "post" THEN trunc \o fill ELSE fill \o trunc

pad_sequences(sequences, maxlen, padding, truncating, value) ==
    [i \in 1..Len(sequences) |->
        PadRow(sequences[i], maxlen, padding, truncating, value)]

\* faulty variant: padding='post' left out, so that Keras pads at the front
get_padded_docs_pre(ml, encoded_docs) ==
    pad_sequences(encoded_docs, ml, "pre", "pre", 0)

\* UrlDetector._get_padded_docs: pad_sequences(encoded_docs,
\* maxlen=self.max_length, padding='post'); truncating keeps its default 'pre'
get_padded_docs(ml, encoded_docs) ==
    pad_sequences(encoded_docs, ml, "post", "pre", 0)

(***************************************************************************)
(* The layer graph held in self.model.                                     *)
(***************************************************************************)
Recognised == {"simple_nn", "big_conv_nn"}

\* the names a caller passes: the two recognised ones and one that is not
ModelNames == Recognised \cup {"other_nn"}

\* Sequential(): an empty, uncompiled graph
Sequential(id) ==
    [id |-> id, class |-> "Sequential", arch |-> "empty", layers |-> <<>>,
     compiled |-> FALSE, optimizer |-> "none", loss |-> "none",
     metrics |-> <<>>, weights |-> 0]

\* _get_complete_conv_layer: convolution, batch normalization, sum over the
\* sequence axis, dropout
get_complete_conv_layer(filter_length, nb_filter) ==
    <<[layer |-> "Convolution1D", size |-> nb_filter, width |-> filter_length],
      [layer |-> "BatchNormalization", size |-> nb_filter, width |-> 0],
      [layer |-> "Lambda_sum_1d", size |-> nb_filter, width |-> 0],
      [layer |-> "Dropout", size |-> nb_filter, width |-> 0]>>

Layer(name, size) == [layer |-> name, size |-> size, width |-> 0]

\* _build_simple_nn: a new Sequential with Embedding, Flatten, Dense(1),
\* compiled with metrics=['acc']
build_simple_nn(m, vs, ml) ==
    [id |-> m.id + 1, class |-> "Sequential", arch |-> "simple_nn",
     layers |-> <<Layer("Embedding", 32), Layer("Flatten", 32 * ml),
                  Layer("Dense_sigmoid", 1)>>,
     compiled |-> TRUE, optimizer |-> "adam", loss |-> "binary_crossentropy",
     metrics |-> <<"acc">>, weights |-> 0]

\* _build_big_conv_nn: a functional Model with four convolution branches,
\* compiled with metrics=['acc', self.f1]
build_big_conv_nn(m, vs, ml) ==
    [id |-> m.id + 1, class |-> "Model", arch |-> "big_conv_nn",
     layers |-> <<Layer("Input", ml), Layer("Embedding", 32)>>
                \o get_complete_conv_layer(2, 256)
                \o get_complete_conv_layer(3, 256)
                \o get_complete_conv_layer(4, 256)
                \o get_complete_conv_layer(5, 256)
                \o <<Layer("Concatenate", 1024), Layer("BatchNormalization", 1024),
                     Layer("Dense_relu", 1024), Layer("BatchNormalization", 1024),
                     Layer("Dropout", 1024),
                     Layer("Dense_relu", 1024), Layer("BatchNormalization", 1024),
                     Layer("Dropout", 1024),
                     Layer("Dense_relu", 1024), Layer("BatchNormalization", 1024),
                     Layer("Dropout", 1024),
                     Layer("Dense_sigmoid", 1)>>,
     compiled |-> TRUE, optimizer |-> "adam", loss |-> "binary_crossentropy",
     metrics |-> <<"acc", "f1">>, weights |-> 0]

\* faulty variant: a final else branch that builds the default architecture
build_model_default(m, name, vs, ml) ==
    IF name = "big_conv_nn" THEN build_big_conv_nn(m, vs, ml)
    ELSE build_simple_nn(m, vs, ml)

\* UrlDetector.build_model: the value of self.model after build_model(name);
\* no branch matches an unrecognised name and self.model is left as it is
build_model(m, name, vs, ml) ==
    IF name = "simple_nn" THEN build_simple_nn(m, vs, ml)
    ELSE IF name = "big_conv_nn" THEN build_big_conv_nn(m, vs, ml)
    ELSE m

\* faulty variant: the two size arguments stored in each other's field
construct_swapped(name, vs, ml) ==
    [max_length |-> vs, vocab_size |-> ml,
     model |-> build_model(Sequential(1), name, ml, vs)]

\* UrlDetector.__init__: the fields after construction
construct(name, vs, ml) ==
    [max_length |-> ml, vocab_size |-> vs,
     model |-> build_model(Sequential(1), name, vs, ml)]

(***************************************************************************)
(* The file system and the Keras calls on self.model.                      *)
(***************************************************************************)
\* directories are paths, sequences of components
LogDirs == {<<"training_logs">>, <<"logs", "run1">>}

\* os.path.exists
exists(d, path) == path \in d

\* os.makedirs: the directory and every missing parent
makedirs(d, path) == d \cup {SubSeq(path, 1, k) : k \in 1..Len(path)}

\* int(n * (1 - validation_split)) with validation_split = 0.2: the samples
\* model.fit trains on, the rest being the validation tail
TrainCount(n) == (n * 8) \div 10

\* the network's forward pass on one padded row, in units of 1 / PredScale: a
\* deterministic function of the graph, its weights and the row
Forward(m, row) == (m.id + m.weights + Sum(row)) % (PredScale + 1)

\* self.model.fit: an uncompiled model raises; otherwise the weights are
\* trained when the training part of the split is not empty
keras_fit(m, padded, labels) ==
    IF ~m.compiled THEN [model |-> m, raised |-> "RuntimeError"]
    ELSE [model |-> [m EXCEPT !.weights =
                        IF TrainCount(Len(padded)) > 0 THEN @ + 1 ELSE @],
          raised |-> "none"]

\* self.model.evaluate: an uncompiled model raises; otherwise it reports the
\* loss followed by one value per compiled metric
keras_evaluate(m, padded, labels) ==
    IF ~m.compiled THEN [nvalues |-> 0, raised |-> "RuntimeError"]
    ELSE [nvalues |-> 1 + Len(m.metrics), raised |-> "none"]

\* self.model.predict_proba: a method of Sequential only (the functional
\* Model has none); an empty Sequential cannot be built
keras_predict_proba(m, padded) ==
    IF m.class # "Sequential" THEN [result |-> <<>>, raised |-> "AttributeError"]
    ELSE IF m.layers = <<>> THEN [result |-> <<>>, raised |-> "TypeError"]
    ELSE [result |-> [i \in 1..Len(padded) |-> Forward(m, padded[i])],
          raised |-> "none"]

(***************************************************************************)
(* The methods, as functions of the state they read.                       *)
(***************************************************************************)
\* faulty variant: os.makedirs without the os.path.exists test, which raises on a
\* directory that is already there
fit_makedirs_always(m, d, ml, encoded_docs, labels, training_logs) ==
    IF exists(d, training_logs)
    THEN [model |-> m, dirs |-> d, padded |-> <<>>,
          steps |-> <<"os.makedirs">>, raised |-> "FileExistsError"]
    ELSE LET padded == get_padded_docs(ml, encoded_docs)
             r == keras_fit(m, padded, labels)
         IN  [model |-> r.model, dirs |-> makedirs(d, training_logs),
              padded |-> padded,
              steps |-> <<"os.makedirs", "TensorBoard", "_get_padded_docs",
                          "model.fit">>,
              raised |-> r.raised]

\* faulty variant: fit compiles the graph again, with the accuracy metric alone,
\* before it trains
fit_recompile(m, d, ml, encoded_docs, labels, training_logs) ==
    LET absent == ~exists(d, training_logs)
        padded == get_padded_docs(ml, encoded_docs)
        r == keras_fit([m EXCEPT !.compiled = TRUE, !.optimizer = "adam",
                           !.loss = "binary_crossentropy",
                           !.metrics = <<"acc">>], padded, labels)
    IN  [model |-> r.model,
         dirs |-> IF absent THEN makedirs(d, training_logs) ELSE d,
         padded |-> padded,
         steps |-> <<"os.path.exists">>
                   \o (IF absent THEN <<"os.makedirs">> ELSE <<>>)
                   \o <<"TensorBoard", "_get_padded_docs", "model.fit">>,
         raised |-> r.raised]

\* UrlDetector.fit: ensure the log directory, create the TensorBoard
\* callback, pad, train
fit(m, d, ml, encoded_docs, labels, training_logs) ==
    LET absent == ~exists(d, training_logs)
        padded == get_padded_docs(ml, encoded_docs)
        r == keras_fit(m, padded, labels)
    IN  [model |-> r.model,
         dirs |-> IF absent THEN makedirs(d, training_logs) ELSE d,
         padded |-> padded,
         steps |-> <<"os.path.exists">>
                   \o (IF absent THEN <<"os.makedirs">> ELSE <<>>)
                   \o <<"TensorBoard", "_get_padded_docs", "model.fit">>,
         raised |-> r.raised]

\* UrlDetector.evaluate: pad, evaluate, unpack three values, print two lines
evaluate(m, ml, encoded_docs, labels) ==
    LET padded == get_padded_docs(ml, encoded_docs)
        r == keras_evaluate(m, padded, labels)
    IN  IF r.raised # "none"
        THEN [padded |-> padded, nvalues |-> 0, printed |-> 0, raised |-> r.raised]
        ELSE IF r.nvalues # 3
        THEN [padded |-> padded, nvalues |-> r.nvalues, printed |-> 0,
              raised |-> "ValueError"]
        ELSE [padded |-> padded, nvalues |-> r.nvalues, printed |-> 2,
              raised |-> "none"]

\* UrlDetector.predict_proba: pad, predict
predict_proba(m, ml, encoded_docs) ==
    LET padded == get_padded_docs(ml, encoded_docs)
        r == keras_predict_proba(m, padded)
    IN  [padded |-> padded, result |-> r.result, raised |-> r.raised]

(***************************************************************************)
(* Arithmetic of the metric.  Naturals of any size are little-endian       *)
(* sequences of limbs (no leading zero limb; <<>> is 0).  A float32 value  *)
(* is the rational [num, den] it stands for, in lowest terms (den a power  *)
(* of 2); a zero den records a division by zero.  Each operation computes  *)
(* the exact result and rounds it to the nearest float32, ties to the even *)
(* mantissa.  The values of the metric lie between 2^-24 and 2^24, so      *)
(* neither subnormals nor overflow arise.                                  *)
(*                                                                         *)
(* An intermediate value that is used more than once is bound through a    *)
(* singleton set (CHOOSE r \in {f(v) : v \in {e}} : TRUE is f(e)), so that *)
(* it is computed once.                                                    *)
(***************************************************************************)
Limb == 2 ^ 12

RECURSIVE BigFromNat(_)
BigFromNat(n) == IF n = 0 THEN <<>> ELSE <<n % Limb>> \o BigFromNat(n \div Limb)

\* the limb of a at place i, 0 beyond its length
LimbAt(a, i) == IF i <= Len(a) THEN a[i] ELSE 0

\* the limbs of a + b + c from place i on, c being the carry into place i
RECURSIVE BigAddC(_, _, _, _)
BigAddC(a, b, i, c) ==
    IF i > Len(a) /\ i > Len(b) THEN (IF c = 0 THEN <<>> ELSE <<c>>)
    ELSE CHOOSE r \in {<<t % Limb>> \o BigAddC(a, b, i + 1, t \div Limb) :
                          t \in {LimbAt(a, i) + LimbAt(b, i) + c}} : TRUE

BigAdd(a, b) == CHOOSE r \in {BigAddC(x, y, 1, 0) : x \in {a}, y \in {b}} : TRUE

\* the limbs of a * d + c from place i on, d a single limb and c the carry
RECURSIVE BigMulLimbC(_, _, _, _)
BigMulLimbC(a, d, i, c) ==
    IF i > Len(a) THEN (IF c = 0 THEN <<>> ELSE <<c>>)
    ELSE CHOOSE r \in {<<t % Limb>> \o BigMulLimbC(a, d, i + 1, t \div Limb) :
                          t \in {a[i] * d + c}} : TRUE

\* a times the single limb d
BigMulLimb(a, d) ==
    IF d = 0 THEN <<>>
    ELSE CHOOSE r \in {BigMulLimbC(x, d, 1, 0) : x \in {a}} : TRUE

\* a times the limbs of b from place j on
RECURSIVE BigMulFrom(_, _, _)
BigMulFrom(a, b, j) ==
    IF j > Len(b) THEN <<>>
    ELSE CHOOSE r \in {BigAdd(BigMulLimb(a, b[j]),
                              IF rest = <<>> THEN <<>> ELSE <<0>> \o rest) :
                          rest \in {BigMulFrom(a, b, j + 1)}} : TRUE

BigMul(a, b) ==
    CHOOSE r \in {IF x = <<>> THEN <<>> ELSE BigMulFrom(x, y, 1) :
                     x \in {a}, y \in {b}} : TRUE

\* a < b for two naturals of i limbs that agree above place i
RECURSIVE BigLessFrom(_, _, _)
BigLessFrom(a, b, i) ==
    IF i = 0 THEN FALSE
    ELSE IF a[i] # b[i] THEN a[i] < b[i]
    ELSE BigLessFrom(a, b, i - 1)

\* a < b, comparing from the highest limb
BigLess(a, b) ==
    CHOOSE r \in {IF Len(x) # Len(y) THEN Len(x) < Len(y)
                  ELSE BigLessFrom(x, y, Len(x)) : x \in {a}, y \in {b}} : TRUE

\* 2^k: whole limbs of zeros below the limb 2^(k mod 12)
BigPow2(k) ==
    [i \in 1..(k \div 12 + 1) |-> IF i = k \div 12 + 1 THEN 2 ^ (k % 12) ELSE 0]

\* n * 2^k
BigShift(n, k) ==
    IF n = <<>> THEN <<>>
    ELSE [i \in 1..(k \div 12) |-> 0] \o BigMulLimb(n, 2 ^ (k % 12))

\* the number of bits of a limb, and of a natural
RECURSIVE Bits(_)
Bits(k) == IF k = 0 THEN 0 ELSE 1 + Bits(k \div 2)

BigBits(n) == IF n = <<>> THEN 0 ELSE 12 * (Len(n) - 1) + Bits(n[Len(n)])

\* the largest q with q * d <= n among acc, acc + 1, ..., acc + 2^(bit+1) - 1,
\* bit by bit
RECURSIVE BigQuotC(_, _, _, _)
BigQuotC(n, d, bit, acc) ==
    IF bit < 0 THEN acc
    ELSE CHOOSE r \in {IF BigLess(n, BigMul(BigFromNat(acc + 2 ^ bit), d))
                       THEN BigQuotC(n, d, bit - 1, acc)
                       ELSE BigQuotC(n, d, bit - 1, acc + 2 ^ bit) :
                          z \in {0}} : TRUE

\* n \div d, for a quotient below 2^25
BigQuot(n, d) ==
    CHOOSE r \in {BigQuotC(x, y, 24, 0) : x \in {n}, y \in {d}} : TRUE

Rat(n, d) == [num |-> BigFromNat(n), den |-> BigFromNat(d)]

\* n / d, both positive, scaled by a power of 2 into [2^24, 2^25): the
\* 24-bit mantissa with one more bit, and the exponent
Scale(n, d) ==
    CHOOSE r \in
        {IF BigLess(n1, BigShift(d1, 25)) THEN [n |-> n1, d |-> d1, e |-> e1]
         ELSE [n |-> n1, d |-> BigAdd(d1, d1), e |-> e1 + 1] :
            e1 \in {BigBits(n) - BigBits(d) - 25},
            n1 \in {BigShift(n, IF BigBits(n) - BigBits(d) < 25
                                THEN 25 - (BigBits(n) - BigBits(d)) ELSE 0)},
            d1 \in {BigShift(d, IF BigBits(n) - BigBits(d) > 25
                                THEN BigBits(n) - BigBits(d) - 25 ELSE 0)}} : TRUE

\* m * 2^e in lowest terms
RECURSIVE Float(_, _)
Float(m, e) ==
    IF m % 2 = 0 THEN Float(m \div 2, e + 1)
    ELSE IF e >= 0 THEN [num |-> BigShift(BigFromNat(m), e), den |-> <<1>>]
    ELSE [num |-> BigFromNat(m), den |-> BigPow2(0 - e)]

\* the mantissa q2 \div 2 rounded by its extra bit: up when the rest is more
\* than a half, to the even mantissa when it is exactly a half
RoundMantissa(q2, exact) ==
    IF q2 % 2 = 0 THEN q2 \div 2
    ELSE IF exact THEN q2 \div 2 + ((q2 \div 2) % 2)
    ELSE q2 \div 2 + 1

\* the float32 nearest to n / d, both positive
Nearest(n, d) ==
    CHOOSE r \in
        {CHOOSE f \in
            {Float(RoundMantissa(q2, BigMul(BigFromNat(q2), s.d) = s.n), s.e + 1) :
                q2 \in {BigQuot(s.n, s.d)}} : TRUE :
            s \in {Scale(n, d)}} : TRUE

\* the float32 nearest to the rational x, a tie going to the even
\* mantissa; 0 and a division by zero are kept
F32(x) ==
    CHOOSE r \in {IF v.den = <<>> THEN v
                  ELSE IF v.num = <<>> THEN Rat(0, 1)
                  ELSE Nearest(v.num, v.den) : v \in {x}} : TRUE

\* x + y in float32
Add32(x, y) ==
    CHOOSE r \in
        {F32([num |-> BigAdd(BigMul(a.num, b.den), BigMul(b.num, a.den)),
              den |-> BigMul(a.den, b.den)]) : a \in {x}, b \in {y}} : TRUE

\* x * y in float32
Mul32(x, y) ==
    CHOOSE r \in
        {F32([num |-> BigMul(a.num, b.num), den |-> BigMul(a.den, b.den)]) :
            a \in {x}, b \in {y}} : TRUE

\* x / y in float32
Div32(x, y) ==
    CHOOSE r \in
        {F32([num |-> BigMul(a.num, b.den), den |-> BigMul(a.den, b.num)]) :
            a \in {x}, b \in {y}} : TRUE

\* comparisons of two values whose den is not zero
RatLess(x, y) == BigLess(BigMul(x.num, y.den), BigMul(y.num, x.den))

RatEq(x, y) == BigMul(x.num, y.den) = BigMul(y.num, x.den)

\* a finite value (no division by zero behind it) that is 0
RatIsZero(x) == x.den # <<>> /\ x.num = <<>>

\* a finite value greater than 0
RatPositive(x) == x.den # <<>> /\ x.num # <<>>

(***************************************************************************)
(* The F1 metric.  A tensor is a sequence of entries in units of           *)
(* 1 / PredScale: a label t is t * PredScale, a prediction k is k.         *)
(***************************************************************************)
\* 1 / K.epsilon(): Keras' fuzz factor is 1e-7
EpsInv == 10000000

\* K.epsilon() as a float32 constant
Epsilon == F32(Rat(1, EpsInv))

\* y_true * y_pred, entry by entry (labels are whole numbers)
TensorMul(y_true, y_pred) ==
    [i \in 1..Len(y_true) |-> (y_true[i] * y_pred[i]) \div PredScale]

\* K.clip(x, 0, 1)
Clip(x) == [i \in 1..Len(x) |-> Min(Max(x[i], 0), PredScale)]

\* K.round on entries of [0, 1]: to the nearest whole number, a half to the
\* even one (0)
Round(x) == [i \in 1..Len(x) |-> IF 2 * x[i] > PredScale THEN 1 ELSE 0]

\* K.sum of a tensor of whole numbers, as a float32
Count(x) == F32(Rat(Sum(x), 1))

\* faulty variant: the denominator without the fuzz factor
recall_no_epsilon(y_true, y_pred) ==
    CHOOSE r \in
        {[positives |-> Sum(Round(Clip(y_true))), den |-> possible_positives,
          value |-> Div32(true_positives, possible_positives)] :
            true_positives \in {Count(Round(Clip(TensorMul(y_true, y_pred))))},
            possible_positives \in {Count(Round(Clip(y_true)))}} : TRUE

\* recall(y_true, y_pred) inside UrlDetector.f1, with the denominator it
\* divides by
recall(y_true, y_pred) ==
    CHOOSE r \in
        {[positives |-> Sum(Round(Clip(y_true))), den |-> den,
          value |-> Div32(true_positives, den)] :
            true_positives \in {Count(Round(Clip(TensorMul(y_true, y_pred))))},
            den \in {Add32(Count(Round(Clip(y_true))), Epsilon)}} : TRUE

\* precision(y_true, y_pred) inside UrlDetector.f1, with the denominator it
\* divides by
precision(y_true, y_pred) ==
    CHOOSE r \in
        {[positives |-> Sum(Round(Clip(y_pred))), den |-> den,
          value |-> Div32(true_positives, den)] :
            true_positives \in {Count(Round(Clip(TensorMul(y_true, y_pred))))},
            den \in {Add32(Count(Round(Clip(y_pred))), Epsilon)}} : TRUE

\* faulty variant: the harmonic mean without its factor 2
f1_no_factor(y_true, y_pred) ==
    CHOOSE r \in
        {CHOOSE o \in
            {[precision |-> p, recall |-> r_, den |-> den,
              value |-> Div32(Mul32(p.value, r_.value), den)] :
                den \in {Add32(Add32(p.value, r_.value), Epsilon)}} : TRUE :
            p \in {precision(y_true, y_pred)},
            r_ \in {recall(y_true, y_pred)}} : TRUE

\* UrlDetector.f1: 2 * ((precision * recall) / (precision + recall + epsilon))
f1(y_true, y_pred) ==
    CHOOSE r \in
        {CHOOSE o \in
            {[precision |-> p, recall |-> r_, den |-> den,
              value |-> Mul32(Rat(2, 1), Div32(Mul32(p.value, r_.value), den))] :
                den \in {Add32(Add32(p.value, r_.value), Epsilon)}} : TRUE :
            p \in {precision(y_true, y_pred)},
            r_ \in {recall(y_true, y_pred)}} : TRUE

(***************************************************************************)
(* UrlDetector.plot_roc_curve: predict, then roc_curve and auc (values     *)
(* that are only drawn), then a new matplotlib figure.  A predict_proba    *)
(* that raises ends the call before any figure is opened.                  *)
(***************************************************************************)
plot_roc_curve(m, ml, figs, encoded_docs, labels) ==
    LET r == predict_proba(m, ml, encoded_docs)
    IN  [padded |-> r.padded, result |-> r.result, raised |-> r.raised,
         figures |-> IF r.raised = "none" THEN figs + 1 ELSE figs]

(***************************************************************************)
(* Inputs.                                                                 *)
(***************************************************************************)
Codes == 1..NumCodes

\* every encoded document of up to MaxLength + 1 codes
Docs == SeqsUpTo(Codes, MaxLength + 1)

\* every batch of one or two documents
PadBatches == {<<d>> : d \in Docs} \cup {<<d, e>> : d \in Docs, e \in Docs}

\* the document 1, 2, ..., cycling through the codes, k long
SampleDoc(k) == [i \in 1..k |-> ((i - 1) % NumCodes) + 1]

\* the batches the methods are called with: a single one-code document, and
\* that document with one longer than every max_length
SampleBatches ==
    {<<SampleDoc(1)>>, <<SampleDoc(1), SampleDoc(MaxLength + 1)>>}

\* labels aligned with n documents: all identical, or alternating
LabelsFor(n) == {Repeat(0, n), [i \in 1..n |-> i % 2]}

\* (labels, predictions) of a metric batch: 1..MaxBatch entries
MetricBatches ==
    UNION {[1..n -> {0, 1} \X (0..PredScale)] : n \in 1..MaxBatch}

(***************************************************************************)
(* State.                                                                  *)
(***************************************************************************)
\* the fields and the environment a call starts from
Snapshot ==
    [max_length |-> max_length, vocab_size |-> vocab_size, model |-> model,
     dirs |-> dirs, figures |-> figures]

\* the record of a call, before its own fields are filled in
Call(op) ==
    [op |-> op, name |-> "", docs |-> <<>>, labels |-> <<>>, logs |-> <<>>,
     padded |-> <<>>, result |-> <<>>, raised |-> "none", steps |-> <<>>,
     nvalues |-> 0, printed |-> 0, repeat |-> FALSE, prev |-> <<>>,
     before |-> Snapshot]

NoPrediction == [valid |-> FALSE, docs |-> <<>>, result |-> <<>>]

NoMetric == [called |-> FALSE, y_true |-> <<>>, y_pred |-> <<>>, out |-> <<>>]

\* the state after UrlDetector(name, vs, ml), with no directory on disk
Constructed(name, vs, ml) ==
    LET o == construct(name, vs, ml)
    IN  /\ max_length = o.max_length
        /\ vocab_size = o.vocab_size
        /\ model = o.model
        /\ ctor = [model |-> name, vocab_size |-> vs, max_length |-> ml]
        /\ dirs = {}
        /\ figures = 0
        /\ rebuilt = FALSE
        /\ lastpred = NoPrediction

Init ==
    /\ \E name \in ModelNames, ml \in 1..MaxLength :
          Constructed(name, NumCodes + 1, ml)
    /\ call = Call("init")
    /\ metric = NoMetric

(***************************************************************************)
(* Operations.                                                             *)
(***************************************************************************)
BuildModel(name) ==
    /\ model.id < MaxObjects
    /\ model' = build_model(model, name, vocab_size, max_length)
    /\ rebuilt' = (rebuilt \/ name \in Recognised)
    /\ lastpred' = NoPrediction
    /\ call' = [Call("build_model") EXCEPT !.name = name]
    /\ UNCHANGED <<max_length, vocab_size, dirs, figures, ctor, metric>>

Fit(encoded_docs, labels, training_logs) ==
    LET r == fit(model, dirs, max_length, encoded_docs, labels, training_logs)
    IN  /\ model.weights < MaxFits
        /\ model' = r.model
        /\ dirs' = r.dirs
        /\ lastpred' = NoPrediction
        /\ call' = [Call("fit") EXCEPT !.docs = encoded_docs, !.labels = labels,
                       !.logs = training_logs, !.padded = r.padded,
                       !.steps = r.steps, !.raised = r.raised]
        /\ UNCHANGED <<max_length, vocab_size, figures, ctor, rebuilt, metric>>

Evaluate(encoded_docs, labels) ==
    LET r == evaluate(model, max_length, encoded_docs, labels)
    IN  /\ call' = [Call("evaluate") EXCEPT !.docs = encoded_docs,
                       !.labels = labels, !.padded = r.padded,
                       !.nvalues = r.nvalues, !.printed = r.printed,
                       !.raised = r.raised]
        /\ UNCHANGED <<max_length, vocab_size, model, dirs, figures, ctor,
                       rebuilt, lastpred, metric>>

PredictProba(encoded_docs) ==
    LET r == predict_proba(model, max_length, encoded_docs)
    IN  /\ lastpred' = IF r.raised = "none"
                       THEN [valid |-> TRUE, docs |-> encoded_docs,
                             result |-> r.result]
                       ELSE lastpred
        /\ call' = [Call("predict_proba") EXCEPT !.docs = encoded_docs,
                       !.padded = r.padded, !.result = r.result,
                       !.raised = r.raised,
                       !.repeat = (lastpred.valid /\ lastpred.docs = encoded_docs),
                       !.prev = lastpred.result]
        /\ UNCHANGED <<max_length, vocab_size, model, dirs, figures, ctor,
                       rebuilt, metric>>

PlotRocCurve(encoded_docs, labels) ==
    LET r == plot_roc_curve(model, max_length, figures, encoded_docs, labels)
    IN  /\ figures < MaxFigures
        /\ figures' = r.figures
        /\ lastpred' = IF r.raised = "none"
                       THEN [valid |-> TRUE, docs |-> encoded_docs,
                             result |-> r.result]
                       ELSE lastpred
        /\ call' = [Call("plot_roc_curve") EXCEPT !.docs = encoded_docs,
                       !.labels = labels, !.padded = r.padded,
                       !.raised = r.raised]
        /\ UNCHANGED <<max_length, vocab_size, model, dirs, ctor, rebuilt,
                       metric>>

GetPaddedDocs(encoded_docs) ==
    /\ call' = [Call("_get_padded_docs") EXCEPT !.docs = encoded_docs,
                   !.padded = get_padded_docs(max_length, encoded_docs)]
    /\ UNCHANGED <<max_length, vocab_size, model, dirs, figures, ctor, rebuilt,
                   lastpred, metric>>

Next ==
    \/ \E name \in ModelNames : BuildModel(name)
    \/ \E docs \in SampleBatches, logs \in LogDirs :
          \E labels \in LabelsFor(Len(docs)) : Fit(docs, labels, logs)
    \/ \E docs \in SampleBatches :
          \E labels \in LabelsFor(Len(docs)) : Evaluate(docs, labels)
    \/ \E docs \in SampleBatches : PredictProba(docs)
    \/ \E docs \in SampleBatches :
          \E labels \in LabelsFor(Len(docs)) : PlotRocCurve(docs, labels)
    \/ \E docs \in SampleBatches : GetPaddedDocs(docs)

Spec == Init /\ [][Next]_vars

(***************************************************************************)
(* _get_padded_docs as a function: the instance is constructed with some   *)
(* max_length, the batch is drawn from every batch of short documents, and *)
(* the one step pads it.                                                   *)
(***************************************************************************)
InitPad ==
    /\ \E ml \in 1..MaxLength : Constructed("simple_nn", NumCodes + 1, ml)
    /\ \E docs \in PadBatches : call = [Call("input") EXCEPT !.docs = docs]
    /\ metric = NoMetric

NextPad == call.op = "input" /\ GetPaddedDocs(call.docs)

SpecPad == InitPad /\ [][NextPad]_vars

(***************************************************************************)
(* The F1 metric as a function: the batch is drawn from every batch of     *)
(* labels and predictions, and the one step computes the metric.           *)
(***************************************************************************)
F1(y_true, y_pred) ==
    /\ ~metric.called
    /\ metric' = [called |-> TRUE, y_true |-> y_true, y_pred |-> y_pred,
                  out |-> f1([i \in 1..Len(y_true) |-> y_true[i] * PredScale],
                             y_pred)]
    /\ UNCHANGED <<max_length, vocab_size, model, dirs, figures, call, ctor,
                   rebuilt, lastpred>>

InitF1 ==
    /\ Constructed("big_conv_nn", NumCodes + 1, MaxLength)
    /\ call = Call("init")
    /\ \E b \in MetricBatches :
          metric = [NoMetric EXCEPT !.y_true = [i \in 1..Len(b) |-> b[i][1]],
                                    !.y_pred = [i \in 1..Len(b) |-> b[i][2]]]

NextF1 == F1(metric.y_true, metric.y_pred)

SpecF1 == InitF1 /\ [][NextF1]_vars

(***************************************************************************)
(* Properties.                                                             *)
(***************************************************************************)
Range(f) == {f[i] : i \in DOMAIN f}

\* the layer graph without its weights: the object, its layers and what it
\* was compiled with
Graph(m) == [m EXCEPT !.weights = 0]

\* the architecture the constructor builds for a name
ArchOf(name) == IF name \in Recognised THEN name ELSE "empty"

Padded == call.op = "_get_padded_docs"

\* C1: every document longer than max_length is padded to its first
\* max_length entries, in order (the head is kept, the tail dropped).
C1_TruncationKeepsHead ==
    Padded =>
        \A i \in 1..Len(call.docs) :
            Len(call.docs[i]) > max_length =>
                call.padded[i] = SubSeq(call.docs[i], 1, max_length)

\* C2: every document of at most max_length entries is padded to exactly
\* max_length entries: the document itself, in order, followed only by 0;
\* every row of a padded batch is max_length long.
C2_ShortDocsRightPadded ==
    Padded =>
        /\ Len(call.padded) = Len(call.docs)
        /\ \A i \in 1..Len(call.docs) : Len(call.padded[i]) = max_length
        /\ \A i \in 1..Len(call.docs) :
              LET D == call.docs[i]
              IN  Len(D) <= max_length =>
                     /\ SubSeq(call.padded[i], 1, Len(D)) = D
                     /\ \A j \in (Len(D) + 1)..max_length : call.padded[i][j] = 0

\* a batch of two documents of different lengths, one of them not empty and
\* shorter than max_length, has been padded
C2_Witness ==
    /\ Padded
    /\ Len(call.docs) = 2
    /\ Len(call.docs[1]) > 0
    /\ Len(call.docs[1]) < max_length
    /\ Len(call.docs[2]) # Len(call.docs[1])

\* C3: on an instance built with a recognised architecture, evaluate gets
\* three values (loss, accuracy, F1) from the evaluation pass and prints its
\* two lines without raising.
C3_EvaluateUnpacksThree ==
    (call.op = "evaluate" /\ call.before.model.arch \in Recognised) =>
        /\ call.raised = "none"
        /\ call.nvalues = 3
        /\ call.printed = 2

\* C4: build_model with an unrecognised name raises nothing and leaves
\* self.model exactly as it was; after a constructor given such a name,
\* self.model is the empty, uncompiled graph created before build_model.
C4_UnrecognisedNameBuildsNothing ==
    /\ (call.op = "build_model" /\ call.name \notin Recognised) =>
          (call.raised = "none" /\ model = call.before.model)
    /\ (call.op = "init" /\ ctor.model \notin Recognised) =>
          (call.raised = "none" /\ model = Sequential(1))

\* build_model("other_nn") has been called on an instance that holds a built
\* network
C4_Witness ==
    /\ call.op = "build_model"
    /\ call.name = "other_nn"
    /\ call.before.model.arch = "big_conv_nn"

\* C5: after any sequence of public operations the instance has the
\* max_length, the vocab_size and the architecture it was constructed with.
C5_HyperparametersFixed ==
    /\ max_length = ctor.max_length
    /\ vocab_size = ctor.vocab_size
    /\ model.arch = ArchOf(ctor.model)

\* C5, amended: max_length and vocab_size stay as constructed; the
\* architecture is changed by build_model with a recognised name, which
\* makes it the named one, and by no other operation.
C5_SizesFixedArchitectureRebuildable ==
    /\ max_length = ctor.max_length
    /\ vocab_size = ctor.vocab_size
    /\ (model.arch # ArchOf(ctor.model)) => rebuilt
    /\ (call.op = "build_model" /\ call.name \in Recognised) =>
          model.arch = call.name
    /\ (call.op \notin {"init", "build_model"}) =>
          model.arch = call.before.model.arch

\* an instance whose architecture is no longer the constructed one has been
\* trained
C5_Witness ==
    /\ call.op = "fit"
    /\ call.raised = "none"
    /\ model.arch # ArchOf(ctor.model)
    /\ ctor.model \in Recognised

\* C6: fit, evaluate, predict_proba, plot_roc_curve and _get_padded_docs
\* leave self.model the same object with the same layers and the same
\* compilation, and leave max_length and vocab_size unchanged.
C6_OnlyBuildModelReplacesGraph ==
    (call.op \in {"fit", "evaluate", "predict_proba", "plot_roc_curve",
                  "_get_padded_docs"}) =>
        /\ Graph(model) = Graph(call.before.model)
        /\ max_length = call.before.max_length
        /\ vocab_size = call.before.vocab_size

\* fit has trained the weights of the big network
C6_Witness ==
    /\ call.op = "fit"
    /\ model.arch = "big_conv_nn"
    /\ model.weights # call.before.model.weights

\* C7: after any fit the log directory exists and no directory is gone;
\* os.makedirs runs exactly when the directory was absent; the existence
\* test and the creation come before padding and training; and every fit,
\* the first and the later ones, reaches model.fit.
C7_FitEnsuresLogDirectory ==
    call.op = "fit" =>
        /\ call.logs \in dirs
        /\ call.before.dirs \subseteq dirs
        /\ ("os.makedirs" \in Range(call.steps)) <=> (call.logs \notin call.before.dirs)
        /\ call.raised # "FileExistsError"
        /\ "_get_padded_docs" \in Range(call.steps)
        /\ call.steps[Len(call.steps)] = "model.fit"
        /\ \A i, j \in 1..Len(call.steps) :
              (/\ call.steps[i] \in {"os.path.exists", "os.makedirs"}
               /\ call.steps[j] \in {"_get_padded_docs", "model.fit"}) => i < j

\* a second fit into the nested directory the first one created has trained
C7_Witness ==
    /\ call.op = "fit"
    /\ call.logs = <<"logs", "run1">>
    /\ call.logs \in call.before.dirs
    /\ call.raised = "none"
    /\ model.weights = 2

\* C8: predict_proba changes no state and creates nothing on disk, returns
\* one probability per input document, and repeats its result on the same
\* input when no build_model or fit came between.
C8_PredictProbaPure ==
    call.op = "predict_proba" =>
        /\ Snapshot = call.before
        /\ call.raised = "none"
        /\ Len(call.result) = Len(call.docs)
        /\ call.repeat => call.result = call.prev

\* C9: the three denominators of the F1 metric are strictly positive on
\* every batch, and F1 is exactly 0 whenever precision and recall are 0.
C9_NoDivisionByZero ==
    metric.called =>
        /\ RatPositive(metric.out.precision.den)
        /\ RatPositive(metric.out.recall.den)
        /\ RatPositive(metric.out.den)
        /\ (RatIsZero(metric.out.precision.value)
            /\ RatIsZero(metric.out.recall.value)) => RatIsZero(metric.out.value)

\* the metric of a batch with no predicted and no actual positive is 0
C9_Witness ==
    /\ metric.called
    /\ Len(metric.y_true) >= 2
    /\ metric.out.precision.positives = 0
    /\ metric.out.recall.positives = 0
    /\ RatIsZero(metric.out.value)

\* a batch that is not empty, all of whose labels are 1 and all of whose
\* predictions count as positive
AllPositive ==
    /\ metric.called
    /\ Len(metric.y_true) >= 1
    /\ \A i \in 1..Len(metric.y_true) :
          metric.y_true[i] = 1 /\ Round(Clip(metric.y_pred))[i] = 1

\* C10: on an all-positive batch whose predictions all count as positive the
\* F1 metric returns 1.
C10_F1IsOne == AllPositive => RatEq(metric.out.value, Rat(1, 1))

\* C10, amended: on such a batch of two or more entries F1 is 1; on a batch
\* of a single entry F1 is below 1, by less than 2 * epsilon.
C10_F1NearOne ==
    AllPositive =>
        /\ Len(metric.y_true) >= 2 => RatEq(metric.out.value, Rat(1, 1))
        /\ Len(metric.y_true) = 1 =>
              /\ RatLess(Rat(EpsInv - 2, EpsInv), metric.out.value)
              /\ RatLess(metric.out.value, Rat(1, 1))

\* the metric of an all-positive batch of several entries is 1
C10_Witness ==
    /\ AllPositive
    /\ Len(metric.y_true) >= 2
    /\ RatEq(metric.out.value, Rat(1, 1))

====
